---- MODULE Spec2Model ----
(***************************************************************************)
(* Model of libraries/persistent_store/src/model.rs (StoreModel): the      *)
(* logical content of a bounded key-value store and the three mutable      *)
(* operations Transaction, Clear and Prepare.                              *)
(*                                                                         *)
(* The state of a StoreModel is its two fields, content and format.  The   *)
(* variables op, result and prev record the call of apply that has just    *)
(* returned: the operation passed, the StoreResult returned and content()  *)
(* before it.  The caller takes the result (Return) before its next call.  *)
(***************************************************************************)
EXTENDS Integers, Sequences, FiniteSets, TLC

VARIABLES content, format, op, result, prev

vars == <<content, format, op, result, prev>>

(***************************************************************************)
(* Bounds of the exploration.                                              *)
(***************************************************************************)
\* Longest list of updates passed to a Transaction.
MaxTxLen == 2

(***************************************************************************)
(* Format (crate::format::Format): the storage configuration.              *)
(***************************************************************************)
\* The configurations explored; new(format) is called with one of them.
Formats ==
    [ total_capacity : {3, 6},
      max_key        : {1, 2},
      max_value_len  : {1},
      max_updates    : {0, 1, 2},
      word_size      : {2} ]

total_capacity(f) == f.total_capacity

max_key(f) == f.max_key

max_value_len(f) == f.max_value_len

max_updates(f) == f.max_updates

\* Number of words needed to hold a number of bytes (rounded up).
bytes_to_words(f, bytes) == (bytes + f.word_size - 1) \div f.word_size

(***************************************************************************)
(* StoreError / StoreResult<()>.                                           *)
(***************************************************************************)
Ok == "Ok"

InvalidArgument == "InvalidArgument"

NoCapacity == "NoCapacity"

(***************************************************************************)
(* Inputs: keys, values, updates and operations offered to apply.          *)
(***************************************************************************)
\* Keys offered: every valid key and the first invalid one.
Keys(f) == 0 .. (max_key(f) + 1)

\* Byte slices offered as values, of lengths 0 to 2.
Values == { <<>>, <<1>>, <<2>>, <<1, 2>> }

\* StoreUpdate::Insert { key, value }
Insert(key, value) == [kind |-> "Insert", key |-> key, value |-> value]

\* StoreUpdate::Remove { key }
Remove(key) == [kind |-> "Remove", key |-> key]

IsInsert(u) == u.kind = "Insert"

IsRemove(u) == u.kind = "Remove"

Updates(f) ==
    { Insert(k, v) : k \in Keys(f), v \in Values } \cup { Remove(k) : k \in Keys(f) }

UpdateLists(f) == UNION { [1 .. n -> Updates(f)] : n \in 0 .. MaxTxLen }

\* StoreOperation
TransactionOp(updates) == [type |-> "Transaction", updates |-> updates]

ClearOp(min_key) == [type |-> "Clear", min_key |-> min_key]

PrepareOp(length) == [type |-> "Prepare", length |-> length]

\* No call of apply is waiting for its result to be taken.
NoOp == [type |-> "None"]

(***************************************************************************)
(* content: HashMap<usize, Box<[u8]>>, a function from the stored keys to  *)
(* their values.                                                           *)
(***************************************************************************)
EmptyContent == [k \in {} |-> <<>>]

\* Variant: an existing entry is kept (entry().or_insert() instead of insert()).
MapInsert_KeepExisting(c, key, value) ==
    [k \in (DOMAIN c) \cup {key} |-> IF k \in DOMAIN c THEN c[k] ELSE value]

\* HashMap::insert
MapInsert(c, key, value) ==
    [k \in (DOMAIN c) \cup {key} |-> IF k = key THEN value ELSE c[k]]

\* HashMap::remove
MapRemove(c, key) == [k \in (DOMAIN c) \ {key} |-> c[k]]

\* Variant: the threshold key itself is retained (k <= min_key).
MapRetainBelow_Inclusive(c, min_key) ==
    [k \in {j \in DOMAIN c : j <= min_key} |-> c[k]]

\* Variant: only one entry at or above the threshold is deleted per call (the
\* scan stops at the first key found).
MapRetainBelow_FirstOnly(c, min_key) ==
    LET above == {j \in DOMAIN c : j >= min_key}
    IN  IF above = {} THEN c
        ELSE LET first == CHOOSE j \in above : \A i \in above : j <= i
             IN  [k \in (DOMAIN c) \ {first} |-> c[k]]

\* HashMap::retain(|&k, _| k < min_key)
MapRetainBelow(c, min_key) == [k \in {j \in DOMAIN c : j < min_key} |-> c[k]]

(***************************************************************************)
(* Word accounting.                                                        *)
(***************************************************************************)
\* Variant: the header word of an entry is not counted.
entry_size_NoHeader(f, value) == bytes_to_words(f, Len(value))

\* StoreModel::entry_size
entry_size(f, value) == 1 + bytes_to_words(f, Len(value))

\* Variant: a Remove is free in every transaction.
update_size_RemoveFree(f, u) == IF IsInsert(u) THEN entry_size(f, u.value) ELSE 0

\* StoreModel::update_size
update_size(f, u) == IF IsInsert(u) THEN entry_size(f, u.value) ELSE 1

RECURSIVE SumEntrySizes(_, _, _)
SumEntrySizes(f, c, keys) ==
    IF keys = {} THEN 0
    ELSE LET k == CHOOSE j \in keys : TRUE
         IN  entry_size(f, c[k]) + SumEntrySizes(f, c, keys \ {k})

RECURSIVE SumUpdateSizes(_, _)
SumUpdateSizes(f, updates) ==
    IF updates = <<>> THEN 0
    ELSE update_size(f, Head(updates)) + SumUpdateSizes(f, Tail(updates))

\* StoreModel::capacity
capacity(f, c) ==
    [used |-> SumEntrySizes(f, c, DOMAIN c), total |-> total_capacity(f)]

\* StoreRatio::remaining
remaining(ratio) == ratio.total - ratio.used

(***************************************************************************)
(* Transaction.                                                            *)
(***************************************************************************)
\* Variant: the key max_key itself is rejected (key < max_key).
update_valid_Strict(f, u) ==
    /\ u.key < max_key(f)
    /\ (IsInsert(u) => Len(u.value) <= max_value_len(f))

\* Variant: the length of the value of an Insert is not checked.
update_valid_KeyOnly(f, u) == u.key <= max_key(f)

\* StoreModel::update_valid
update_valid(f, u) ==
    /\ u.key <= max_key(f)
    /\ (IsInsert(u) => Len(u.value) <= max_value_len(f))

\* The set of keys of the updates (the HashSet of transaction).
UpdateKeys(updates) == { updates[i].key : i \in DOMAIN updates }

\* Variant: the single-Remove optimization looks at the first update only,
\* whatever the number of updates.
TransactionCapacity_FirstUpdate(f, updates) ==
    CASE Len(updates) = 0 -> 0
      [] Len(updates) >= 1 /\ IsRemove(updates[1]) -> 0
      [] Len(updates) = 1 -> entry_size(f, updates[1].value)
      [] OTHER -> 1 + SumUpdateSizes(f, updates)

\* Variant: the empty transaction is charged the marker word as well.
TransactionCapacity_EmptyMarker(f, updates) ==
    CASE Len(updates) = 1 ->
            IF IsInsert(updates[1]) THEN entry_size(f, updates[1].value) ELSE 0
      [] OTHER -> 1 + SumUpdateSizes(f, updates)

\* Variant: a single update is charged update_size, so a lone Remove costs a word.
TransactionCapacity_NoSingleRemove(f, updates) ==
    CASE Len(updates) = 0 -> 0
      [] Len(updates) = 1 -> update_size(f, updates[1])
      [] OTHER -> 1 + SumUpdateSizes(f, updates)

\* Variant: no marker word for a transaction of two or more updates.
TransactionCapacity_NoMarker(f, updates) ==
    CASE Len(updates) = 0 -> 0
      [] Len(updates) = 1 ->
            IF IsInsert(updates[1]) THEN entry_size(f, updates[1].value) ELSE 0
      [] OTHER -> SumUpdateSizes(f, updates)

\* The capacity a transaction needs.
TransactionCapacity(f, updates) ==
    CASE Len(updates) = 0 -> 0
      [] Len(updates) = 1 ->
            IF IsInsert(updates[1]) THEN entry_size(f, updates[1].value) ELSE 0
      [] OTHER -> 1 + SumUpdateSizes(f, updates)

\* Variant: a Remove leaves an empty entry behind instead of deleting the key.
ApplyUpdate_Tombstone(c, u) ==
    IF IsInsert(u) THEN MapInsert(c, u.key, u.value) ELSE MapInsert(c, u.key, <<>>)

\* One iteration of the loop applying the updates.
ApplyUpdate(c, u) ==
    IF IsInsert(u) THEN MapInsert(c, u.key, u.value) ELSE MapRemove(c, u.key)

\* The loop applying the updates in order.
RECURSIVE ApplyUpdates(_, _)
ApplyUpdates(c, updates) ==
    IF updates = <<>> THEN c
    ELSE ApplyUpdates(ApplyUpdate(c, Head(updates)), Tail(updates))

\* Variant: the updates are applied before the capacity check.
transaction_ApplyFirst(f, c, updates) ==
    IF Len(updates) > max_updates(f)
    THEN [result |-> InvalidArgument, content |-> c]
    ELSE IF ~ \A i \in DOMAIN updates : update_valid(f, updates[i])
    THEN [result |-> InvalidArgument, content |-> c]
    ELSE IF Cardinality(UpdateKeys(updates)) # Len(updates)
    THEN [result |-> InvalidArgument, content |-> c]
    ELSE IF remaining(capacity(f, c)) < TransactionCapacity(f, updates)
    THEN [result |-> NoCapacity, content |-> ApplyUpdates(c, updates)]
    ELSE [result |-> Ok, content |-> ApplyUpdates(c, updates)]

\* Variant: no check that the keys are disjoint (the last update of a key wins).
transaction_NoDisjointCheck(f, c, updates) ==
    IF Len(updates) > max_updates(f)
    THEN [result |-> InvalidArgument, content |-> c]
    ELSE IF ~ \A i \in DOMAIN updates : update_valid(f, updates[i])
    THEN [result |-> InvalidArgument, content |-> c]
    ELSE IF remaining(capacity(f, c)) < TransactionCapacity(f, updates)
    THEN [result |-> NoCapacity, content |-> c]
    ELSE [result |-> Ok, content |-> ApplyUpdates(c, updates)]

\* Variant: the capacity check comes before the validation of the updates.
transaction_CapacityFirst(f, c, updates) ==
    IF remaining(capacity(f, c)) < TransactionCapacity(f, updates)
    THEN [result |-> NoCapacity, content |-> c]
    ELSE IF Len(updates) > max_updates(f)
    THEN [result |-> InvalidArgument, content |-> c]
    ELSE IF ~ \A i \in DOMAIN updates : update_valid(f, updates[i])
    THEN [result |-> InvalidArgument, content |-> c]
    ELSE IF Cardinality(UpdateKeys(updates)) # Len(updates)
    THEN [result |-> InvalidArgument, content |-> c]
    ELSE [result |-> Ok, content |-> ApplyUpdates(c, updates)]

\* Variant: the capacity needed is compared with the capacity remaining once
\* the entries the updates replace or remove are gone.
transaction_CreditReplaced(f, c, updates) ==
    IF Len(updates) > max_updates(f)
    THEN [result |-> InvalidArgument, content |-> c]
    ELSE IF ~ \A i \in DOMAIN updates : update_valid(f, updates[i])
    THEN [result |-> InvalidArgument, content |-> c]
    ELSE IF Cardinality(UpdateKeys(updates)) # Len(updates)
    THEN [result |-> InvalidArgument, content |-> c]
    ELSE IF remaining(capacity(f, c))
              + SumEntrySizes(f, c, DOMAIN c \cap UpdateKeys(updates))
              < TransactionCapacity(f, updates)
    THEN [result |-> NoCapacity, content |-> c]
    ELSE [result |-> Ok, content |-> ApplyUpdates(c, updates)]

\* StoreModel::transaction: the result returned and the content afterwards.
transaction(f, c, updates) ==
    IF Len(updates) > max_updates(f)
    THEN [result |-> InvalidArgument, content |-> c]
    ELSE IF ~ \A i \in DOMAIN updates : update_valid(f, updates[i])
    THEN [result |-> InvalidArgument, content |-> c]
    ELSE IF Cardinality(UpdateKeys(updates)) # Len(updates)
    THEN [result |-> InvalidArgument, content |-> c]
    ELSE IF remaining(capacity(f, c)) < TransactionCapacity(f, updates)
    THEN [result |-> NoCapacity, content |-> c]
    ELSE [result |-> Ok, content |-> ApplyUpdates(c, updates)]

(***************************************************************************)
(* Clear and Prepare.                                                      *)
(***************************************************************************)
\* StoreModel::clear
clear(f, c, min_key) ==
    IF min_key > max_key(f)
    THEN [result |-> InvalidArgument, content |-> c]
    ELSE [result |-> Ok, content |-> MapRetainBelow(c, min_key)]

\* Variant: a request for exactly the remaining capacity fails (<= for <).
prepare_Strict(f, c, length) ==
    IF remaining(capacity(f, c)) <= length
    THEN [result |-> NoCapacity, content |-> c]
    ELSE [result |-> Ok, content |-> c]

\* StoreModel::prepare
prepare(f, c, length) ==
    IF remaining(capacity(f, c)) < length
    THEN [result |-> NoCapacity, content |-> c]
    ELSE [result |-> Ok, content |-> c]

(***************************************************************************)
(* The state machine: new, then any sequence of apply calls.               *)
(***************************************************************************)
\* StoreModel::new
Init ==
    /\ format \in Formats
    /\ content = EmptyContent
    /\ op = NoOp
    /\ result = Ok
    /\ prev = EmptyContent

\* The effect of apply(operation) returning r.
Applied(operation, r) ==
    /\ content' = r.content
    /\ result' = r.result
    /\ op' = operation
    /\ prev' = content
    /\ UNCHANGED format

\* apply(StoreOperation::Transaction { updates })
Transaction ==
    /\ op = NoOp
    /\ \E updates \in UpdateLists(format) :
        Applied(TransactionOp(updates), transaction(format, content, updates))

\* apply(StoreOperation::Clear { min_key })
Clear ==
    /\ op = NoOp
    /\ \E min_key \in Keys(format) :
        Applied(ClearOp(min_key), clear(format, content, min_key))

\* apply(StoreOperation::Prepare { length })
Prepare ==
    /\ op = NoOp
    /\ \E length \in 0 .. (total_capacity(format) + 1) :
        Applied(PrepareOp(length), prepare(format, content, length))

\* The caller takes the result; the operation value is dropped.
Return ==
    /\ op # NoOp
    /\ op' = NoOp
    /\ result' = Ok
    /\ prev' = content
    /\ UNCHANGED <<content, format>>

Next == Transaction \/ Clear \/ Prepare \/ Return

Spec == Init /\ [][Next]_vars

(***************************************************************************)
(* Shorthands for the last call.                                           *)
(***************************************************************************)
IsTransaction == op.type = "Transaction"

IsClear == op.type = "Clear"

IsPrepare == op.type = "Prepare"

Failed == result \in {InvalidArgument, NoCapacity}

TypeOK ==
    /\ format \in Formats
    /\ result \in {Ok, InvalidArgument, NoCapacity}
    /\ DOMAIN content \subseteq Keys(format)
    /\ \A k \in DOMAIN content : content[k] \in Values

(***************************************************************************)
(* Vocabulary of the properties, stated on the call that has just          *)
(* returned: updates of the Transaction, capacity before and after.        *)
(***************************************************************************)
Succeeded == op # NoOp /\ result = Ok

UsedBefore == capacity(format, prev).used

UsedAfter == capacity(format, content).used

RemainingBefore == remaining(capacity(format, prev))

\* A key or a value beyond the limits of the configuration.
KeyTooLarge(u) == u.key > max_key(format)

ValueTooLong(u) == IsInsert(u) /\ Len(u.value) > max_value_len(format)

\* Two updates of the list share a key.
SharesKey(updates) ==
    \E i, j \in DOMAIN updates : i # j /\ updates[i].key = updates[j].key

\* The three validation rules of a transaction, as the specification words them.
PassesValidation(updates) ==
    /\ Len(updates) <= max_updates(format)
    /\ \A i \in DOMAIN updates : ~ KeyTooLarge(updates[i]) /\ ~ ValueTooLong(updates[i])
    /\ ~ SharesKey(updates)

\* Words charged for one update of a transaction of 2 or more updates.
WordsOfUpdate(u) == IF IsInsert(u) THEN 1 + bytes_to_words(format, Len(u.value)) ELSE 1

RECURSIVE WordsOfFirst(_, _)
WordsOfFirst(updates, n) ==
    IF n = 0 THEN 0 ELSE WordsOfUpdate(updates[n]) + WordsOfFirst(updates, n - 1)

\* The cost of a transaction by number of updates.
Cost(updates) ==
    IF Len(updates) = 0 THEN 0
    ELSE IF Len(updates) = 1
    THEN (IF IsInsert(updates[1]) THEN 1 + bytes_to_words(format, Len(updates[1].value)) ELSE 0)
    ELSE 1 + WordsOfFirst(updates, Len(updates))

\* The permutations of the indices 1 .. n.
IndexPermutations(n) ==
    { p \in [1 .. n -> 1 .. n] : \A i, j \in 1 .. n : i # j => p[i] # p[j] }

Permuted(updates, p) == [i \in DOMAIN updates |-> updates[p[i]]]

(***************************************************************************)
(* Properties.                                                             *)
(***************************************************************************)
\* C1: an operation (Transaction, Clear or Prepare) that returns an error,
\* InvalidArgument or NoCapacity, leaves content() and capacity() (used and
\* total) as they were before the call.
C1_FailureLeavesModelUnchanged ==
    (op # NoOp /\ Failed) =>
        /\ content = prev
        /\ capacity(format, content) = capacity(format, prev)

\* A Transaction was refused for lack of capacity on a store that holds entries.
C1_Witness ==
    /\ IsTransaction
    /\ result = NoCapacity
    /\ prev # EmptyContent
    /\ \E i \in DOMAIN op.updates : IsInsert(op.updates[i])

\* C2: a Transaction that passes validation returns NoCapacity exactly when
\* remaining() < cost and Ok otherwise, where cost is 0 for no update, for one
\* update entry_size(value) of an Insert and 0 for a Remove, and for two or
\* more updates 1 plus entry_size(value) per Insert and 1 per Remove.
C2_CapacityCheck ==
    (IsTransaction /\ PassesValidation(op.updates)) =>
        /\ (result = NoCapacity) <=> (RemainingBefore < Cost(op.updates))
        /\ (result = Ok) <=> (RemainingBefore >= Cost(op.updates))

\* A transaction of a Remove and an Insert was refused although the entry of
\* the Insert alone would have fitted.
C2_Witness ==
    /\ IsTransaction
    /\ PassesValidation(op.updates)
    /\ Len(op.updates) = 2
    /\ \E i, j \in DOMAIN op.updates :
          /\ IsRemove(op.updates[i])
          /\ IsInsert(op.updates[j])
          /\ RemainingBefore >= 1 + bytes_to_words(format, Len(op.updates[j].value))
    /\ result = NoCapacity

\* C3: after a Transaction that returns Ok, content() maps the key of every
\* Insert to its value, holds no key of a Remove, and maps every key no update
\* mentions as before; the Remove of an absent key is no error and the key
\* stays absent.
C3_TransactionEffect ==
    (IsTransaction /\ result = Ok) =>
        /\ \A i \in DOMAIN op.updates :
              IF IsInsert(op.updates[i])
              THEN /\ op.updates[i].key \in DOMAIN content
                   /\ content[op.updates[i].key] = op.updates[i].value
              ELSE op.updates[i].key \notin DOMAIN content
        /\ \A k \in (DOMAIN content \cup DOMAIN prev) \ UpdateKeys(op.updates) :
              /\ k \in DOMAIN content
              /\ k \in DOMAIN prev
              /\ content[k] = prev[k]

\* A transaction overwrote one key, removed an absent one and left a third alone.
C3_Witness ==
    /\ IsTransaction
    /\ result = Ok
    /\ \E i, j \in DOMAIN op.updates :
          /\ IsInsert(op.updates[i])
          /\ op.updates[i].key \in DOMAIN prev
          /\ prev[op.updates[i].key] # op.updates[i].value
          /\ IsRemove(op.updates[j])
          /\ op.updates[j].key \notin DOMAIN prev
    /\ \E k \in DOMAIN prev : k \notin UpdateKeys(op.updates)

\* C4: a Transaction in which two updates share a key returns InvalidArgument
\* and leaves content unchanged, whatever the variants of the two updates and
\* the remaining capacity.
C4_DuplicateKeysRejected ==
    (IsTransaction /\ SharesKey(op.updates)) =>
        /\ result = InvalidArgument
        /\ content = prev

\* Within the limits and with room to spare, an Insert and a Remove of one key
\* were refused.
C4_Witness ==
    /\ IsTransaction
    /\ Len(op.updates) = 2
    /\ Len(op.updates) <= max_updates(format)
    /\ IsInsert(op.updates[1])
    /\ IsRemove(op.updates[2])
    /\ op.updates[1].key = op.updates[2].key
    /\ op.updates[1].key <= max_key(format)
    /\ Len(op.updates[1].value) <= max_value_len(format)
    /\ RemainingBefore >= 1 + SumUpdateSizes(format, op.updates)
    /\ result = InvalidArgument

\* C5: a Transaction with an update whose key is greater than max_key, or an
\* Insert whose value is longer than max_value_len, returns InvalidArgument; a
\* key equal to max_key and a length equal to max_value_len are not refused on
\* these grounds.
C5_LimitsOfUpdates ==
    IsTransaction =>
        /\ (\E i \in DOMAIN op.updates :
                KeyTooLarge(op.updates[i]) \/ ValueTooLong(op.updates[i]))
              => result = InvalidArgument
        /\ ( /\ Len(op.updates) <= max_updates(format)
             /\ ~ SharesKey(op.updates)
             /\ \A i \in DOMAIN op.updates :
                   /\ op.updates[i].key <= max_key(format)
                   /\ IsInsert(op.updates[i]) =>
                         Len(op.updates[i].value) <= max_value_len(format) )
              => result # InvalidArgument

\* An Insert at key max_key of a value of length max_value_len succeeded.
C5_Witness ==
    /\ IsTransaction
    /\ Len(op.updates) = 1
    /\ IsInsert(op.updates[1])
    /\ op.updates[1].key = max_key(format)
    /\ Len(op.updates[1].value) = max_value_len(format)
    /\ result = Ok
    /\ content[max_key(format)] = op.updates[1].value

\* C6: Clear{min_key} returns InvalidArgument exactly when min_key > max_key
\* and never NoCapacity; otherwise it returns Ok and content() is exactly the
\* prior entries whose key is strictly less than min_key, values unchanged.
C6_ClearEffect ==
    IsClear =>
        /\ (result = InvalidArgument) <=> (op.min_key > max_key(format))
        /\ result # NoCapacity
        /\ (op.min_key <= max_key(format)) =>
              /\ result = Ok
              /\ DOMAIN content = { k \in DOMAIN prev : k < op.min_key }
              /\ \A k \in DOMAIN content : content[k] = prev[k]
        /\ (result = Ok /\ op.min_key = 0) => content = EmptyContent

\* Clear{max_key} deleted the entry stored at max_key and kept one below it.
C6_Witness ==
    /\ IsClear
    /\ op.min_key = max_key(format)
    /\ max_key(format) \in DOMAIN prev
    /\ result = Ok
    /\ max_key(format) \notin DOMAIN content
    /\ content # EmptyContent

\* C7: Prepare{length} returns NoCapacity exactly when remaining() < length and
\* Ok otherwise, never InvalidArgument, and content() and capacity() are the
\* same after the call as before it in both cases.
C7_PrepareEffect ==
    IsPrepare =>
        /\ (result = NoCapacity) <=> (RemainingBefore < op.length)
        /\ (result = Ok) <=> (RemainingBefore >= op.length)
        /\ content = prev
        /\ capacity(format, content) = capacity(format, prev)

\* Prepare of exactly the remaining capacity succeeded on a store that holds
\* entries.
C7_Witness ==
    /\ IsPrepare
    /\ prev # EmptyContent
    /\ op.length = RemainingBefore
    /\ op.length > 0
    /\ result = Ok

\* The words of a set of entries of a content: one per entry plus the words
\* of the values.
RECURSIVE ValueWords(_, _)
ValueWords(c, keys) ==
    IF keys = {} THEN 0
    ELSE LET k == CHOOSE j \in keys : \A i \in keys : j >= i
         IN  bytes_to_words(format, Len(c[k])) + ValueWords(c, keys \ {k})

EntryWords(c, keys) == Cardinality(keys) + ValueWords(c, keys)

\* C8: capacity().total is format.total_capacity() and capacity().used is the
\* sum over the stored entries of 1 + bytes_to_words(len(value)); a successful
\* Clear therefore lowers used by exactly the sum of entry_size over the
\* entries it deletes.
C8_CapacityLedger ==
    /\ capacity(format, content).total = format.total_capacity
    /\ capacity(format, content).used = EntryWords(content, DOMAIN content)
    /\ (IsClear /\ result = Ok) =>
          UsedBefore - UsedAfter =
              EntryWords(prev, { k \in DOMAIN prev : k >= op.min_key })

\* A Clear deleted an entry of two words and kept another entry.
C8_Witness ==
    /\ IsClear
    /\ result = Ok
    /\ content # EmptyContent
    /\ \E k \in DOMAIN prev : k \notin DOMAIN content /\ Len(prev[k]) > 0
    /\ UsedAfter < UsedBefore

\* All the updates of the list are Removes.
OnlyRemoves(updates) == \A i \in DOMAIN updates : IsRemove(updates[i])

\* C9: after a successful Clear and after a successful Transaction whose
\* updates are all Removes (of any count), capacity().used is less than or
\* equal to its value before the operation.
C9_UsedDoesNotIncrease ==
    ( /\ result = Ok
      /\ \/ IsClear
         \/ IsTransaction /\ OnlyRemoves(op.updates) )
        => UsedAfter <= UsedBefore

\* A successful transaction of two Removes, one of a stored key and one of an
\* absent key.
C9_Witness ==
    /\ IsTransaction
    /\ result = Ok
    /\ Len(op.updates) = 2
    /\ OnlyRemoves(op.updates)
    /\ \E i, j \in DOMAIN op.updates :
          /\ op.updates[i].key \in DOMAIN prev
          /\ op.updates[j].key \notin DOMAIN prev
    /\ UsedAfter < UsedBefore

\* C10: for a Transaction that passes validation and every permutation of its
\* updates, the permuted Transaction applied in the same state gives the same
\* result and the same content as the original.
C10_OrderIrrelevant ==
    (IsTransaction /\ PassesValidation(op.updates)) =>
        \A p \in IndexPermutations(Len(op.updates)) :
            LET r == transaction(format, prev, Permuted(op.updates, p))
            IN  /\ r.result = result
                /\ r.content = content

\* A successful transaction of the Remove of a stored key followed by an
\* Insert, which has another order.
C10_Witness ==
    /\ IsTransaction
    /\ PassesValidation(op.updates)
    /\ Len(op.updates) = 2
    /\ IsRemove(op.updates[1])
    /\ IsInsert(op.updates[2])
    /\ op.updates[1].key \in DOMAIN prev
    /\ result = Ok
    /\ content # prev

\* C11: Clear{min_key} applied twice in a row yields the same result and the
\* same content as applied once.
C11_ClearIdempotent ==
    IsClear =>
        LET again == clear(format, content, op.min_key)
        IN  /\ again.result = result
            /\ again.content = content

\* A Clear deleted one entry or more and kept one or more.
C11_Witness ==
    /\ IsClear
    /\ result = Ok
    /\ content # prev
    /\ content # EmptyContent
    /\ Cardinality(DOMAIN prev) >= Cardinality(DOMAIN content) + 2

\* C12: a Transaction with 0 updates returns Ok in every reachable state, also
\* when remaining() = 0, and leaves content unchanged.
C12_EmptyTransaction ==
    (IsTransaction /\ Len(op.updates) = 0) =>
        /\ result = Ok
        /\ content = prev

\* The empty transaction succeeded on a full store.
C12_Witness ==
    /\ IsTransaction
    /\ Len(op.updates) = 0
    /\ RemainingBefore = 0
    /\ result = Ok

\* C13: a Transaction of exactly one Remove{key} with key <= max_key, with
\* max_updates >= 1, returns Ok in every reachable state, also when
\* remaining() = 0 and whether or not the key is present; afterwards the key
\* is absent and every other entry is unchanged.
C13_LoneRemove ==
    ( /\ IsTransaction
      /\ Len(op.updates) = 1
      /\ IsRemove(op.updates[1])
      /\ op.updates[1].key <= max_key(format)
      /\ max_updates(format) >= 1 ) =>
        /\ result = Ok
        /\ op.updates[1].key \notin DOMAIN content
        /\ DOMAIN content = DOMAIN prev \ {op.updates[1].key}
        /\ \A k \in DOMAIN content : content[k] = prev[k]

\* A lone Remove took a stored key out of a full store.
C13_Witness ==
    /\ IsTransaction
    /\ Len(op.updates) = 1
    /\ IsRemove(op.updates[1])
    /\ op.updates[1].key \in DOMAIN prev
    /\ RemainingBefore = 0
    /\ result = Ok
    /\ content # EmptyContent

\* C14: a Transaction with more than max_updates updates, with an invalid
\* update or with duplicate keys returns InvalidArgument and never NoCapacity,
\* also where remaining() is smaller than the cost it would have had.
C14_ValidationBeforeCapacity ==
    ( /\ IsTransaction
      /\ \/ Len(op.updates) > max_updates(format)
         \/ \E i \in DOMAIN op.updates :
               KeyTooLarge(op.updates[i]) \/ ValueTooLong(op.updates[i])
         \/ SharesKey(op.updates) ) =>
        /\ result = InvalidArgument
        /\ result # NoCapacity

\* A transaction with an invalid update, too large for the remaining
\* capacity, was refused as InvalidArgument.
C14_Witness ==
    /\ IsTransaction
    /\ Len(op.updates) <= max_updates(format)
    /\ ~ SharesKey(op.updates)
    /\ \E i \in DOMAIN op.updates : ValueTooLong(op.updates[i])
    /\ RemainingBefore < Cost(op.updates)
    /\ result = InvalidArgument

\* The updates applied one at a time, each as a Transaction of one update:
\* whether every step returned Ok, and the content reached.
RECURSIVE ApplySingly(_, _)
ApplySingly(c, updates) ==
    IF updates = <<>> THEN [ok |-> TRUE, content |-> c]
    ELSE LET r == transaction(format, c, << Head(updates) >>)
         IN  IF r.result # Ok THEN [ok |-> FALSE, content |-> r.content]
             ELSE ApplySingly(r.content, Tail(updates))

\* C15: a valid Transaction of n >= 2 updates that are all Removes is charged
\* 1 + n words: it returns NoCapacity whenever remaining() < 1 + n, removing
\* nothing, although the same removals issued as n transactions of one Remove
\* would each succeed.
C15_MultiRemoveCharged ==
    ( /\ IsTransaction
      /\ PassesValidation(op.updates)
      /\ Len(op.updates) >= 2
      /\ OnlyRemoves(op.updates) ) =>
        /\ (RemainingBefore < 1 + Len(op.updates)) =>
              (result = NoCapacity /\ content = prev)
        /\ (RemainingBefore >= 1 + Len(op.updates)) => result = Ok
        /\ ApplySingly(prev, op.updates).ok

\* Two Removes of stored keys were refused in one transaction for lack of
\* capacity.
C15_Witness ==
    /\ IsTransaction
    /\ PassesValidation(op.updates)
    /\ Len(op.updates) = 2
    /\ OnlyRemoves(op.updates)
    /\ \A i \in DOMAIN op.updates : op.updates[i].key \in DOMAIN prev
    /\ result = NoCapacity
    /\ ApplySingly(prev, op.updates).content # prev

C17_UsedWithinTotal ==
    /\ capacity(format, content).used <= capacity(format, content).total
    /\ remaining(capacity(format, content)) >= 0

\* A successful Insert filled the store to used = total.
C17_Witness ==
    /\ IsTransaction
    /\ result = Ok
    /\ content # prev
    /\ UsedAfter > UsedBefore
    /\ UsedAfter = capacity(format, content).total

\* C18: in every state reachable from new(format) by apply calls, every stored
\* entry has key <= max_key and value length <= max_value_len.
C18_EntriesWithinLimits ==
    \A k \in DOMAIN content :
        /\ k <= max_key(format)
        /\ Len(content[k]) <= max_value_len(format)

\* An entry at key max_key with a value of length max_value_len is stored.
C18_Witness ==
    /\ Succeeded
    /\ max_key(format) \in DOMAIN content
    /\ Len(content[max_key(format)]) = max_value_len(format)
    /\ max_key(format) \notin DOMAIN prev

\* C19: if a Transaction of 2 or more updates succeeds in a state, then its
\* updates applied from that state one at a time as Transactions of one
\* update, in any order, succeed at every step and end in the same content.
C19_SinglyAfterMulti ==
    (IsTransaction /\ result = Ok /\ Len(op.updates) >= 2) =>
        \A p \in IndexPermutations(Len(op.updates)) :
            LET r == ApplySingly(prev, Permuted(op.updates, p))
            IN  /\ r.ok
                /\ r.content = content

\* A transaction of an Insert and a Remove succeeded and changed the content;
\* in the state it reached the converse fails: some list of two updates
\* succeeds one at a time in both orders and is refused as one transaction.
C19_Witness ==
    /\ IsTransaction
    /\ result = Ok
    /\ Len(op.updates) = 2
    /\ \E i, j \in DOMAIN op.updates : IsInsert(op.updates[i]) /\ IsRemove(op.updates[j])
    /\ content # prev
    /\ \E k1, k2 \in DOMAIN content :
          /\ k1 # k2
          /\ ApplySingly(content, << Remove(k1), Remove(k2) >>).ok
          /\ ApplySingly(content, << Remove(k2), Remove(k1) >>).ok
          /\ transaction(format, content, << Remove(k1), Remove(k2) >>).result = NoCapacity

\* The number of Remove updates of a list.
CountRemoves(updates) == Cardinality({ i \in DOMAIN updates : IsRemove(updates[i]) })

\* C20: right after a successful Transaction of 2 or more updates,
\* remaining() >= 1 + (number of its Remove updates), so a transaction of two
\* or more updates never fills the store to used = total.
C20_HeadroomAfterMulti ==
    (IsTransaction /\ result = Ok /\ Len(op.updates) >= 2) =>
        /\ remaining(capacity(format, content)) >= 1 + CountRemoves(op.updates)
        /\ UsedAfter < capacity(format, content).total

\* A transaction of an Insert and a Remove left exactly two words.
C20_Witness ==
    /\ IsTransaction
    /\ result = Ok
    /\ Len(op.updates) = 2
    /\ CountRemoves(op.updates) = 1
    /\ UsedAfter > UsedBefore
    /\ remaining(capacity(format, content)) = 2

====
